---------------------------- MODULE Spec2Model ----------------------------
(***************************************************************************)
(* State-machine model of the SMSLY tunnel client.                         *)
(*                                                                         *)
(*   TunnelClient (src/src/client.ts): the relay session.  It owns the     *)
(*   control WebSocket, decodes inbound frames, forwards each request to   *)
(*   the local HTTP server and writes the response back.                   *)
(*   Inspector (src/unnamed/part_001): the bounded request history and     *)
(*   the fan-out of live events to observer sockets.                       *)
(*   CLI (src/unnamed/part_000): builds the client, installs the SIGINT    *)
(*   handler and calls connect().                                          *)
(*                                                                         *)
(* Node runs every callback to completion and drains the promise jobs it   *)
(* queued before the next I/O event, so one action is one callback         *)
(* together with the continuations it resumes.                             *)
(***************************************************************************)
EXTENDS Integers, Sequences, FiniteSets, TLC

(***************************************************************************)
(* Bounds of the model.                                                    *)
(***************************************************************************)
\* Number of request frames the server sends during one run, for each of the
\* three specifications below.
SessionReqs == 2

HistoryReqs == 3

ObserverReqs == 2

\* Number of request frames the server sends to a client that is used again.
ReuseReqs == 1

\* Number of request frames the server sends to a client whose endpoint
\* and request headers vary.
EndpointReqs == 1

\* Number of request frames the server sends while exchanges are followed
\* through History.
ExchangeReqs == 3

\* Number of request frames the server sends in a run that is repeated
\* without the inspector, and the number of events of such a run after the
\* transport has opened.
TwinReqs == 2

MaxScript == 4

\* Number of times the login command is run.
MaxLogins == 2

\* Frames that make the client stop which the server sends during one run.
MaxErrorFrames == 1

\* Capacity of the history.  The program sets it to 500 (part_001 line 33);
\* logRequest only compares the length with it, so the model runs the same
\* code with a capacity small enough for eviction to happen.
maxRequests == 2

\* Observer connections the inspector page opens during one run.
Observers == {"o1", "o2"}

(***************************************************************************)
(* Values.                                                                 *)
(***************************************************************************)
\* JavaScript's undefined, for an absent string field.
Undefined == "<undefined>"

\* JavaScript's null, for publicUrl and this.ws.
Null == "<null>"

\* An absent response of a history entry (InspectedRequest.response).
NoResponse == [status |-> 0, body |-> Undefined]

\* Truthiness of a string-or-undefined value, as `if (x)` and `x || y` use it.
Truthy(s) == s /= Undefined /\ s /= Null /\ s /= ""

\* `a || b` on strings.
OrElse(a, b) == IF Truthy(a) THEN a ELSE b

\* The identifier the server assigns to its k-th request.
ServerIds == <<"r1", "r2", "r3", "r4", "r5">>

\* What the local server can answer: (res.statusCode, body).
OkResult == [status |-> 200, body |-> "ok"]

LocalResults == { OkResult, [status |-> 404, body |-> ""] }

\* err.message of a transport-level failure of the local call.
ErrorMessages == {"connect ECONNREFUSED", ""}

\* options.localPort
localPort == "3000"

\* A header map with no entries.  It also stands for an absent data.headers:
\* the forwarder spreads it (`{ ...data.headers }`), which gives {} for both.
NoHeaders == [name \in {} |-> ""]

\* A decoded control frame.  json tells what JSON.parse made of the text:
\* "invalid" (it throws), "null", "scalar" (a number, string or boolean) or
\* "object"; the other fields are the object's fields, Undefined when absent.
Frame(j, t, e, id, url) ==
    [json |-> j, type |-> t, error |-> e, request_id |-> id, public_url |-> url,
     headers |-> NoHeaders]

Obj(t, e, id, url) == Frame("object", t, e, id, url)

\* Frames the server can send that are not requests.
ControlFrames ==
    { Frame("invalid", Undefined, Undefined, Undefined, Undefined),
      Frame("null", Undefined, Undefined, Undefined, Undefined),
      Frame("scalar", Undefined, Undefined, Undefined, Undefined),
      Obj("connected", Undefined, Undefined, "https://t.example"),
      Obj("connected", Undefined, Undefined, Undefined),
      Obj("response", Undefined, "r1", Undefined),
      Obj("error", "subdomain taken", Undefined, Undefined),
      Obj("error", "", Undefined, Undefined),
      Obj("error", Undefined, Undefined, Undefined),
      Obj(Undefined, "subdomain taken", Undefined, Undefined),
      Obj("ping", Undefined, Undefined, Undefined),
      Obj("ping", "x", Undefined, Undefined) }

\* A request frame.
RequestFrame(id) == Obj("request", Undefined, id, Undefined)

\* The header names a request can carry: spellings of Host, and another
\* header.
HeaderNames == {"host", "Host", "HOST", "hOst", "accept"}

\* The value a header of that name has.
HeaderValue(name) == IF name = "accept" THEN "*/*" ELSE "t.example"

\* The header maps a request can carry.
HeaderMaps == { [name \in S |-> HeaderValue(name)] : S \in SUBSET HeaderNames }

\* A request frame that carries headers.
RequestWith(id, headers) == [RequestFrame(id) EXCEPT !.headers = headers]

\* A URL is kept as the sequence of its pieces: "?", "&" and "=" are
\* pieces of their own, every other piece is text free of these characters.
\* auth.getServerUrl() when none is configured.
DefaultServerUrl == <<"wss:", "//tunnel.smsly.cloud/ws/tunnel">>

\* What --server, --local or the configuration can name: the default, the
\* local development server, a URL that has a query, a URL without scheme.
ServerUrls ==
    { DefaultServerUrl,
      <<"ws:", "//localhost:8080/ws/tunnel">>,
      <<"wss:", "//t.example/ws", "?", "region", "=", "eu">>,
      <<"tunnel.smsly.cloud/ws/tunnel">> }

\* config.apiToken
Tokens == {Undefined, "", "tok"}

\* The tokens the login command is given: one the validation server accepts
\* and one it rejects.
LoginTokens == {"tok", "bad"}

\* How the validation call of login can end for a token: response.ok, a
\* response that is not ok, or fetch throws (the network is down).
Validations(token) ==
    {"network"} \cup (IF token = "tok" THEN {"ok"} ELSE {"rejected"})

\* options.subdomain || auth.getDefaultSubdomain()
Subdomains == {Undefined, "myapp"}

\* The paths of the inspector's HTTP server are kept as pieces too; the
\* prefix of the replay route is a piece of its own.
ReplayPrefix == "/api/replay/"

\* The exchange ids a replay is asked for, as pieces: the first id the
\* server assigns, an id no request carries, and an id that contains the
\* route prefix.
ReplayIds == { <<"r1">>, <<"zz">>, <<"a", ReplayPrefix, "b">> }

\* The page's `fetch('/api/replay/' + id)`.
replayUrl(id) == <<ReplayPrefix>> \o id

\* The paths requested from the inspector's HTTP server.
HttpUrls == { <<"/">>, <<"/favicon.ico">> } \cup { replayUrl(id) : id \in ReplayIds }

\* The text a sequence of pieces stands for.
RECURSIVE Join(_)
Join(pieces) ==
    IF pieces = << >> THEN "" ELSE Head(pieces) \o Join(Tail(pieces))

\* String.prototype.replace(piece, ''): the first occurrence is removed.
replaceFirst(url, piece) ==
    LET hits == { i \in 1..Len(url) : url[i] = piece }
    IN  IF hits = {} THEN url
        ELSE LET i == CHOOSE h \in hits : \A j \in hits : h <= j
             IN  SubSeq(url, 1, i - 1) \o SubSeq(url, i + 1, Len(url))

\* String.prototype.includes for one piece.
includes(url, piece) == \E i \in 1..Len(url) : url[i] = piece

(***************************************************************************)
(* State.                                                                  *)
(***************************************************************************)
VARIABLES
    pc,           \* where the process is: "new", "starting" (connect awaits
                  \* inspector.start), "keepalive" (connect awaits the
                  \* keep-alive promise), "returned", "threw" (connect
                  \* rejected), "exited"
    inspect,      \* options.inspect; this.inspector /= null iff inspect
    apiToken,     \* the stored token (auth.getToken()), Undefined when absent
    options,      \* options.serverUrl and options.subdomain as the CLI set them
    wsUrl,        \* the URL handed to `new WebSocket`, << >> before that
    running,      \* TunnelClient.running
    ws,           \* TunnelClient.ws: Null or "socket"
    wsState,      \* readyState of the WebSocket object, "none" before it exists
    publicUrl,    \* TunnelClient.publicUrl
    requestCount, \* TunnelClient.requestCount
    nreq,         \* request frames handled so far; the k-th one is slot k
    reqId,        \* reqId[k]: data.request_id of the k-th request
    arrivedIn,    \* arrivedIn[k]: the socket's readyState when the k-th
                  \* request arrived, "none" before it has
    promise,      \* promise[k]: the promise forwardRequest returned for slot k
    callbacks,    \* callbacks[k]: which of res 'end' / req 'error' have fired
    localHeaders, \* localHeaders[k]: the headers of the local call of slot k
    sent,         \* frames written on the control connection, in order
    inspState,    \* inspector's servers: "idle", "listening", "stopped"
    requests,     \* Inspector.requests, newest first
    clients,      \* Inspector.clients
    obsState,     \* readyState of each observer socket, "none" before it exists
    obsLog,       \* what each observer socket has been sent, in order
    broadcasts,   \* every message broadcast was called with, in order
    httpRes,      \* the last response of the inspector's HTTP server
    tunnelClosedLines, \* how many times stop() has printed 'Tunnel closed'
    loginCall,    \* the last run of the login command: its state ("none",
                  \* "validating", "done"), its token, how the validation
                  \* ended, what login returned, and the number of runs
    twin          \* for a run that is repeated without the inspector: the
                  \* events the tunnel server and the local server produce
                  \* (script), which of the two runs this is (phase), and
                  \* what the first run wrote and broadcast

vars ==
    << pc, inspect, apiToken, options, wsUrl, running, ws, wsState, publicUrl,
       requestCount, nreq, reqId, arrivedIn, promise, callbacks, localHeaders,
       sent, inspState, requests, clients, obsState, obsLog, broadcasts,
       httpRes, tunnelClosedLines, loginCall, twin >>

\* What is fixed when the CLI has built the client.
configVars == << inspect, apiToken, options, loginCall, twin >>

sessionVars == << running, ws, wsState, publicUrl >>

hubVars == << requests, clients, obsState, obsLog, broadcasts >>

MaxOf(a, b) == IF a >= b THEN a ELSE b

Slots ==
    1..MaxOf(MaxOf(MaxOf(SessionReqs, ExchangeReqs), MaxOf(HistoryReqs, ObserverReqs)),
             TwinReqs)

NoValue == [request_id |-> Undefined, status |-> 0, body |-> Undefined]

Unsettled == [state |-> "pending", value |-> NoValue]

NoPromise == [state |-> "none", value |-> NoValue]

\* A response of the inspector's HTTP server: the status code and, for the
\* JSON of the replay route, its fields.
HttpResponse(code, status, id) == [code |-> code, status |-> status, id |-> id]

NoHttpResponse == HttpResponse(0, Undefined, Undefined)

\* No login command has run.
NoLogin ==
    [state |-> "none", token |-> Undefined, validation |-> "none",
     result |-> FALSE, calls |-> 0]

\* The http command up to `new TunnelClient`: the server URL, with the
\* token added when auth.isAuthenticated().
cliServerUrl(serverUrl, token) ==
    IF Truthy(token)
    THEN serverUrl \o << IF includes(serverUrl, "?") THEN "&" ELSE "?",
                         "token", "=", token >>
    ELSE serverUrl

\* The options the http command hands to the client.
cliOptions(serverUrl, token, subdomain) ==
    [serverUrl |-> cliServerUrl(serverUrl, token), subdomain |-> subdomain]

\* No run is repeated.
NoTwin ==
    [phase |-> 0, script |-> << >>, saved |-> << >>, events |-> 0, broken |-> FALSE]

\* The state right after `new TunnelClient(options)` (client.ts 38-49) and
\* `new Inspector(port)` (part_001 28-37), for a configuration drawn from
\* the given server URLs, tokens and subdomains.
BuiltWith(servers, tokens, subdomains) ==
    /\ pc = "new"
    /\ inspect \in BOOLEAN
    /\ \E s \in servers, t \in tokens, d \in subdomains :
          /\ apiToken = t
          /\ options = cliOptions(s, t, d)
    /\ wsUrl = << >>
    /\ localHeaders = [k \in Slots |-> NoHeaders]
    /\ httpRes = NoHttpResponse
    /\ tunnelClosedLines = 0
    /\ loginCall = NoLogin
    /\ running = FALSE
    /\ ws = Null
    /\ wsState = "none"
    /\ publicUrl = Null
    /\ requestCount = 0
    /\ nreq = 0
    /\ reqId = [k \in Slots |-> Undefined]
    /\ arrivedIn = [k \in Slots |-> "none"]
    /\ promise = [k \in Slots |-> NoPromise]
    /\ callbacks = [k \in Slots |-> {}]
    /\ sent = << >>
    /\ inspState = "idle"
    /\ requests = << >>
    /\ clients = {}
    /\ obsState = [o \in Observers |-> "none"]
    /\ obsLog = [o \in Observers |-> << >>]
    /\ broadcasts = << >>

InitWith(servers, tokens, subdomains) ==
    /\ BuiltWith(servers, tokens, subdomains)
    /\ twin = NoTwin

\* The default configuration: no token, no subdomain, the default server.
Init == InitWith({DefaultServerUrl}, {Undefined}, {Undefined})

(***************************************************************************)
(* Inspector (src/unnamed/part_001).                                       *)
(***************************************************************************)
RequestEvent(request) == [type |-> "request", request |-> request]

ResponseEvent(requestId, response) ==
    [type |-> "response", requestId |-> requestId, response |-> response]

InitEvent(reqs) == [type |-> "init", requests |-> reqs]

\* The observers a broadcast writes to: the members of clients whose
\* readyState is OPEN.
OpenClients == { o \in clients : obsState[o] = "OPEN" }

\* A fan-out that stops after the first observer it writes to.
broadcastFirstOnly(message, failed) ==
    LET first == IF OpenClients = {} THEN {} ELSE {CHOOSE o \in OpenClients : TRUE}
    IN  /\ obsLog' = [o \in Observers |->
                        IF o \in first /\ o \notin failed
                        THEN Append(obsLog[o], message)
                        ELSE obsLog[o]]
        /\ obsState' = [o \in Observers |->
                          IF o \in first /\ o \in failed
                          THEN "CLOSING"
                          ELSE obsState[o]]
        /\ broadcasts' = Append(broadcasts, message)
        /\ UNCHANGED clients

\* Inspector.broadcast.  `failed` are the observers whose write fails: the
\* socket has broken, the message is lost, the library moves the socket to
\* CLOSING and emits its 'close' event later (ObserverClose).
broadcast(message, failed) ==
    /\ obsLog' = [o \in Observers |->
                    IF o \in OpenClients /\ o \notin failed
                    THEN Append(obsLog[o], message)
                    ELSE obsLog[o]]
    /\ obsState' = [o \in Observers |->
                      IF o \in OpenClients /\ o \in failed
                      THEN "CLOSING"
                      ELSE obsState[o]]
    /\ broadcasts' = Append(broadcasts, message)
    /\ UNCHANGED clients

\* An insertion that makes room with shift() instead of pop(): it drops the
\* entry it has just inserted.
unshiftDropNewest(reqs, request) ==
    LET u == <<request>> \o reqs
    IN  IF Len(u) > maxRequests THEN Tail(u) ELSE u

\* requests.unshift(request); if (requests.length > maxRequests) requests.pop()
unshiftBounded(reqs, request) ==
    LET u == <<request>> \o reqs
    IN  IF Len(u) > maxRequests THEN SubSeq(u, 1, Len(u) - 1) ELSE u

\* Inspector.logRequest
logRequest(request, failed) ==
    /\ requests' = unshiftBounded(requests, request)
    /\ broadcast(RequestEvent(request), failed)

\* A lookup that takes the newest entry whatever its id.
findNewest(reqs, requestId) == IF reqs = << >> THEN 0 ELSE 1

\* requests.find(r => r.id === requestId): the index of the first match,
\* 0 when there is none.
find(reqs, requestId) ==
    LET hits == { i \in 1..Len(reqs) : reqs[i].id = requestId }
    IN  IF hits = {} THEN 0
        ELSE CHOOSE i \in hits : \A j \in hits : i <= j

\* A logResponse that announces the outcome whether or not it found the
\* entry.
logResponseAnnounceAll(requestId, response, failed) ==
    LET i == find(requests, requestId)
    IN  /\ requests' = IF i /= 0
                       THEN [requests EXCEPT ![i].response = response]
                       ELSE requests
        /\ broadcast(ResponseEvent(requestId, response), failed)

\* A logResponse that records the outcome in the newest entry when it does
\* not find the id.
logResponseFallback(requestId, response, failed) ==
    LET i == find(requests, requestId)
        j == IF i = 0 /\ requests /= << >> THEN 1 ELSE i
    IN  IF j /= 0
        THEN /\ requests' = [requests EXCEPT ![j].response = response]
             /\ broadcast(ResponseEvent(requestId, response), failed)
        ELSE UNCHANGED hubVars

\* Inspector.logResponse
logResponse(requestId, response, failed) ==
    LET i == find(requests, requestId)
    IN  IF i /= 0
        THEN /\ requests' = [requests EXCEPT ![i].response = response]
             /\ broadcast(ResponseEvent(requestId, response), failed)
        ELSE UNCHANGED hubVars

(***************************************************************************)
(* TunnelClient (src/src/client.ts).                                       *)
(***************************************************************************)
\* JSON.stringify(response): a field that is undefined is left out of the
\* frame, which the record keeps as Undefined.
Encode(response) ==
    [request_id |-> response.request_id,
     status |-> response.status,
     body |-> response.body]

\* this.ws?.send(text).  Nothing is written when this.ws is null; on a
\* socket that is not OPEN the library drops the data or throws, and the
\* handler's catch swallows the throw.
send(response) ==
    sent' = IF ws /= Null /\ wsState = "OPEN"
            THEN Append(sent, Encode(response))
            ELSE sent

\* response.status || 502
StatusOr502(status) == IF status = 0 THEN 502 ELSE status

\* A handler that, with an inspector, gives up a Request without id after
\* the forward instead of writing its Response.
afterForwardInspected(k, response, failed) ==
    IF inspect /\ ~Truthy(reqId[k])
    THEN UNCHANGED << hubVars, sent >>
    ELSE /\ IF inspect
            THEN logResponse(reqId[k],
                             [status |-> StatusOr502(response.status),
                              body |-> response.body],
                             failed)
            ELSE UNCHANGED hubVars
         /\ send(response)

\* The message handler after `await this.forwardRequest(data)` for slot k.
afterForward(k, response, failed) ==
    /\ IF inspect /\ Truthy(reqId[k])
       THEN logResponse(reqId[k],
                        [status |-> StatusOr502(response.status),
                         body |-> response.body],
                        failed)
       ELSE UNCHANGED hubVars
    /\ send(response)

\* A completion that resumes the handler on every callback, as a handler
\* written with callbacks instead of a promise does.
resolveEveryCall(k, value, failed) ==
    /\ promise' = [promise EXCEPT ![k] = [state |-> "resolved", value |-> value]]
    /\ afterForward(k, value, failed)

\* resolve(value) of the promise of slot k: the first call settles it and
\* resumes the handler; a later call does nothing.
resolve(k, value, failed) ==
    IF promise[k].state = "pending"
    THEN /\ promise' = [promise EXCEPT ![k] = [state |-> "resolved", value |-> value]]
         /\ afterForward(k, value, failed)
    ELSE UNCHANGED << promise, sent, hubVars >>

\* A response that takes its request_id from the request handled last
\* instead of from its own request.
EndValueLatest(k, res) ==
    [request_id |-> reqId[nreq], status |-> res.status, body |-> res.body]

\* The value the res 'end' callback resolves with.
EndValue(k, res) ==
    [request_id |-> reqId[k], status |-> res.status, body |-> res.body]

\* A 502 whose body is the bare error message.
ErrorValueBare(k, message) ==
    [request_id |-> reqId[k], status |-> 502, body |-> message]

\* The value the req 'error' callback resolves with.
ErrorValue(k, message) ==
    [request_id |-> reqId[k],
     status |-> 502,
     body |-> "Cannot connect to localhost:" \o localPort \o ": " \o message]

\* The local server's response has been read to its end.
LocalEnd(k, res, failed) ==
    /\ pc \notin {"threw", "exited"}
    /\ promise[k].state /= "none"
    /\ "end" \notin callbacks[k]
    /\ callbacks' = [callbacks EXCEPT ![k] = @ \cup {"end"}]
    /\ resolve(k, EndValue(k, res), failed)
    /\ UNCHANGED << pc, configVars, wsUrl, running, ws, wsState, publicUrl,
                    requestCount, nreq, reqId, arrivedIn, localHeaders, inspState,
                    httpRes, tunnelClosedLines >>

\* The local call failed at the transport level.
LocalError(k, message, failed) ==
    /\ pc \notin {"threw", "exited"}
    /\ promise[k].state /= "none"
    /\ "error" \notin callbacks[k]
    /\ callbacks' = [callbacks EXCEPT ![k] = @ \cup {"error"}]
    /\ resolve(k, ErrorValue(k, message), failed)
    /\ UNCHANGED << pc, configVars, wsUrl, running, ws, wsState, publicUrl,
                    requestCount, nreq, reqId, arrivedIn, localHeaders, inspState,
                    httpRes, tunnelClosedLines >>

\* ws.close() on a socket in state s.
closeSocket(s) == IF s \in {"CONNECTING", "OPEN"} THEN "CLOSING" ELSE s

\* Inspector.stop: wss.close() and server.close().  Both are absent before
\* start().  Whether wss.close() also terminates the connected observers
\* depends on the version of the ws package: `terminate` is that choice.
inspectorStop(terminate) ==
    /\ inspState' = IF inspState = "idle" /\ pc /= "starting" THEN "idle" ELSE "stopped"
    /\ obsState' = [o \in Observers |->
                      IF terminate /\ inspState = "listening" /\ obsState[o] = "OPEN"
                      THEN "CLOSING"
                      ELSE obsState[o]]

\* TunnelClient.stop
stop(terminate) ==
    /\ running' = FALSE
    /\ tunnelClosedLines' = tunnelClosedLines + 1
    /\ IF ws /= Null
       THEN wsState' = closeSocket(wsState) /\ ws' = Null
       ELSE UNCHANGED << ws, wsState >>
    /\ IF inspect
       THEN inspectorStop(terminate)
       ELSE UNCHANGED << inspState, obsState >>

\* forwardRequest's header map for the local call: a copy of data.headers
\* without the keys 'host' and 'Host'.
stripHost(headers) ==
    [name \in DOMAIN headers \ {"host", "Host"} |-> headers[name]]

\* The branch of the message handler for `data.type === 'request'`, up to
\* the await: printRequest, inspector.logRequest, forwardRequest.
handleRequest(data, failed) ==
    LET k == nreq + 1
    IN  /\ requestCount' = IF inspect THEN requestCount + 1 ELSE requestCount
        /\ nreq' = k
        /\ reqId' = [reqId EXCEPT ![k] = data.request_id]
        /\ arrivedIn' = [arrivedIn EXCEPT ![k] = wsState]
        /\ IF inspect
           THEN logRequest([id |-> OrElse(data.request_id, ""),
                            response |-> NoResponse], failed)
           ELSE UNCHANGED hubVars
        /\ localHeaders' = [localHeaders EXCEPT ![k] = stripHost(data.headers)]
        /\ promise' = [promise EXCEPT ![k] = Unsettled]
        /\ UNCHANGED << running, ws, wsState, publicUrl, inspState, sent,
                        tunnelClosedLines >>

\* printConnected
printConnected(data) ==
    /\ publicUrl' = OrElse(data.public_url, "")
    /\ UNCHANGED << running, ws, wsState, requestCount, nreq, reqId, arrivedIn,
                    promise, localHeaders, sent, inspState, hubVars,
                    tunnelClosedLines >>

\* The body of the ws 'message' handler.
dispatch(data, failed, terminate) ==
    IF data.json \in {"invalid", "null"}
    THEN \* JSON.parse or `data.type` throws; the catch logs it
         UNCHANGED << sessionVars, requestCount, nreq, reqId, arrivedIn, promise,
                      localHeaders, sent, inspState, hubVars, tunnelClosedLines >>
    ELSE IF data.type = "connected"
    THEN printConnected(data)
    ELSE IF data.type = "request"
    THEN handleRequest(data, failed)
    ELSE IF Truthy(data.error)
    THEN /\ stop(terminate)
         /\ UNCHANGED << publicUrl, requestCount, nreq, reqId, arrivedIn, promise,
                         localHeaders, sent, requests, clients, obsLog, broadcasts >>
    ELSE UNCHANGED << sessionVars, requestCount, nreq, reqId, arrivedIn, promise,
                      localHeaders, sent, inspState, hubVars, tunnelClosedLines >>

\* A message handler that takes no Request before the Connected message
\* has been received.
OnMessageAfterConnected(data, failed, terminate) ==
    /\ pc \notin {"threw", "exited"}
    /\ wsState \in {"OPEN", "CLOSING"}
    /\ data.type = "request" => publicUrl /= Null
    /\ dispatch(data, failed, terminate)
    /\ UNCHANGED << pc, configVars, wsUrl, callbacks, httpRes >>

\* A frame arrives on the control connection.  The socket emits 'message'
\* while it is OPEN and, after a local close(), until the closing handshake
\* completes.
OnMessage(data, failed, terminate) ==
    /\ pc \notin {"threw", "exited"}
    /\ wsState \in {"OPEN", "CLOSING"}
    /\ dispatch(data, failed, terminate)
    /\ UNCHANGED << pc, configVars, wsUrl, callbacks, httpRes >>

\* connect's "Build WebSocket URL".
buildWsUrl(opts) ==
    IF Truthy(opts.subdomain)
    THEN opts.serverUrl \o << "?", "subdomain", "=", opts.subdomain >>
    ELSE opts.serverUrl

\* Whether `new WebSocket(url)` accepts the URL: it throws a SyntaxError
\* for a URL whose scheme is not a WebSocket scheme.
accepts(url) == url /= << >> /\ url[1] \in {"ws:", "wss:"}

\* connect from the URL on: the socket is created and connect waits in the
\* keep-alive loop, or the constructor throws, the catch rethrows and
\* connect rejects; the CLI does not catch it and the process ends.
openSocket ==
    /\ wsUrl' = buildWsUrl(options)
    /\ IF accepts(buildWsUrl(options))
       THEN /\ ws' = "socket"
            /\ wsState' = "CONNECTING"
            /\ pc' = "keepalive"
       ELSE /\ pc' = "threw"
            /\ UNCHANGED << ws, wsState >>

\* TunnelClient.connect up to its first await: running is set; with an
\* inspector it awaits inspector.start(), without one it goes on to create
\* the socket and to wait in the keep-alive loop.
connect ==
    /\ running' = TRUE
    /\ IF inspect
       THEN /\ pc' = "starting"
            /\ UNCHANGED << wsUrl, ws, wsState >>
       ELSE openSocket
    /\ UNCHANGED << configVars, publicUrl, requestCount, nreq, reqId, arrivedIn,
                    promise, callbacks, localHeaders, sent, inspState, hubVars,
                    httpRes, tunnelClosedLines >>

\* The CLI calls connect() on the client it has built.
Connect == pc = "new" /\ connect

\* A program that embeds the client calls connect() again on a client whose
\* connect() has returned after stop() closed it and the transport was
\* released.
ConnectAgain ==
    /\ pc = "returned"
    /\ ws = Null
    /\ wsState = "CLOSED"
    /\ connect

\* The inspector's server listens (Inspector.start resolves) and connect
\* goes on: it creates the socket and waits in the keep-alive loop.
InspectorListening ==
    /\ pc = "starting"
    /\ inspState' = "listening"
    /\ openSocket
    /\ UNCHANGED << configVars, running, publicUrl, requestCount, nreq, reqId,
                    arrivedIn, promise, callbacks, localHeaders, sent, hubVars,
                    httpRes, tunnelClosedLines >>

\* ws 'open': the handshake completed (the handler only stops the spinner).
WsOpen ==
    /\ pc \notin {"threw", "exited"}
    /\ wsState = "CONNECTING"
    /\ wsState' = "OPEN"
    /\ UNCHANGED << pc, configVars, wsUrl, running, ws, publicUrl, requestCount,
                    nreq, reqId, arrivedIn, promise, callbacks, localHeaders, sent,
                    inspState, hubVars, httpRes, tunnelClosedLines >>

\* ws 'close': the peer closed the transport, or the closing handshake that
\* a local close() started has completed.
WsClose ==
    /\ pc \notin {"threw", "exited"}
    /\ wsState \in {"OPEN", "CLOSING"}
    /\ wsState' = "CLOSED"
    /\ running' = FALSE
    /\ UNCHANGED << pc, configVars, wsUrl, ws, publicUrl, requestCount, nreq,
                    reqId, arrivedIn, promise, callbacks, localHeaders, sent,
                    inspState, hubVars, httpRes, tunnelClosedLines >>

\* ws 'error' followed by the 'close' the library emits after it: the
\* connection could not be established, or it broke.
WsError ==
    /\ pc \notin {"threw", "exited"}
    /\ wsState \in {"CONNECTING", "OPEN"}
    /\ wsState' = "CLOSED"
    /\ running' = FALSE
    /\ UNCHANGED << pc, configVars, wsUrl, ws, publicUrl, requestCount, nreq,
                    reqId, arrivedIn, promise, callbacks, localHeaders, sent,
                    inspState, hubVars, httpRes, tunnelClosedLines >>

\* A tick of the keep-alive interval that finds running false: connect
\* returns.
KeepAlive ==
    /\ pc = "keepalive"
    /\ ~running
    /\ pc' = "returned"
    /\ UNCHANGED << configVars, wsUrl, running, ws, wsState, publicUrl,
                    requestCount, nreq, reqId, arrivedIn, promise, callbacks,
                    localHeaders, sent, inspState, hubVars, httpRes,
                    tunnelClosedLines >>

\* The SIGINT handler of the CLI: client.stop(); process.exit(0).
Sigint(terminate) ==
    /\ pc \notin {"new", "threw", "exited"}
    /\ stop(terminate)
    /\ pc' = "exited"
    /\ UNCHANGED << configVars, wsUrl, publicUrl, requestCount, nreq, reqId,
                    arrivedIn, promise, callbacks, localHeaders, sent, requests,
                    clients, obsLog, broadcasts, httpRes >>

\* A handler that removes every occurrence of the route prefix from the
\* path, not only the first.
httpHandlerRemoveAll(url) ==
    IF url \in { <<"/">>, <<"/index.html">> }
    THEN HttpResponse(200, Undefined, Undefined)
    ELSE IF url /= << >> /\ Head(url) = ReplayPrefix
    THEN HttpResponse(200, "replayed",
                      Join(SelectSeq(url, LAMBDA piece : piece /= ReplayPrefix)))
    ELSE HttpResponse(404, Undefined, Undefined)

\* The request handler of the inspector's HTTP server: the page, the replay
\* route, or 404.
httpHandler(url) ==
    IF url \in { <<"/">>, <<"/index.html">> }
    THEN HttpResponse(200, Undefined, Undefined)
    ELSE IF url /= << >> /\ Head(url) = ReplayPrefix
    THEN HttpResponse(200, "replayed", Join(replaceFirst(url, ReplayPrefix)))
    ELSE HttpResponse(404, Undefined, Undefined)

\* The inspector's HTTP server handles a request for url.
HttpRequest(url) ==
    /\ pc \notin {"threw", "exited"}
    /\ inspState = "listening"
    /\ httpRes' = httpHandler(url)
    /\ UNCHANGED << pc, configVars, wsUrl, sessionVars, requestCount, nreq, reqId,
                    arrivedIn, promise, callbacks, localHeaders, sent, inspState,
                    hubVars, tunnelClosedLines >>

\* The wss 'connection' handler: clients.add(ws), then the init snapshot.
ObserverConnect(o) ==
    /\ pc \notin {"threw", "exited"}
    /\ inspState = "listening"
    /\ obsState[o] = "none"
    /\ clients' = clients \cup {o}
    /\ obsState' = [obsState EXCEPT ![o] = "OPEN"]
    /\ obsLog' = [obsLog EXCEPT ![o] = Append(@, InitEvent(requests))]
    /\ UNCHANGED << pc, configVars, wsUrl, sessionVars, requestCount, nreq, reqId,
                    arrivedIn, promise, callbacks, localHeaders, sent, inspState,
                    requests, broadcasts, httpRes, tunnelClosedLines >>

\* The observer's 'close' handler: clients.delete(ws).
ObserverClose(o) ==
    /\ pc \notin {"threw", "exited"}
    /\ obsState[o] \in {"OPEN", "CLOSING"}
    /\ clients' = clients \ {o}
    /\ obsState' = [obsState EXCEPT ![o] = "CLOSED"]
    /\ UNCHANGED << pc, configVars, wsUrl, sessionVars, requestCount, nreq, reqId,
                    arrivedIn, promise, callbacks, localHeaders, sent, inspState,
                    requests, obsLog, broadcasts, httpRes, tunnelClosedLines >>

(***************************************************************************)
(* Authentication (src/src/auth.ts) and its commands (part_000).           *)
(***************************************************************************)
\* The fields of the client and of the inspector, which the login and
\* logout commands do not have.
clientVars ==
    << pc, inspect, options, wsUrl, sessionVars, requestCount, nreq, reqId,
       arrivedIn, promise, callbacks, localHeaders, sent, inspState, hubVars,
       httpRes, tunnelClosedLines >>

\* A login that stores a token only when the server has accepted it.
loginOnlineOnly(token, stored, validation) ==
    IF validation = "ok"
    THEN [stored |-> token, result |-> TRUE]
    ELSE [stored |-> stored, result |-> FALSE]

\* login(token) after the validation call: the stored token (setToken
\* writes it to the configuration file) and the value returned.
login(token, stored, validation) ==
    IF validation = "ok"
    THEN [stored |-> token, result |-> TRUE]
    ELSE IF validation = "rejected"
    THEN [stored |-> stored, result |-> FALSE]
    ELSE [stored |-> token, result |-> TRUE]

\* The login command: login(token) loads the configuration and awaits the
\* validation call.
LoginCommand(token) ==
    /\ pc = "new"
    /\ loginCall.state /= "validating"
    /\ loginCall.calls < MaxLogins
    /\ loginCall' = [state |-> "validating", token |-> token,
                     validation |-> "none", result |-> FALSE,
                     calls |-> loginCall.calls + 1]
    /\ UNCHANGED << clientVars, apiToken, twin >>

\* The validation call ends and login returns.
LoginReturns(validation) ==
    /\ loginCall.state = "validating"
    /\ validation \in Validations(loginCall.token)
    /\ apiToken' = login(loginCall.token, apiToken, validation).stored
    /\ loginCall' = [loginCall EXCEPT
                        !.state = "done",
                        !.validation = validation,
                        !.result = login(loginCall.token, apiToken, validation).result]
    /\ UNCHANGED << clientVars, twin >>

\* The logout command: AuthManager.logout deletes the stored token.
LogoutCommand ==
    /\ pc = "new"
    /\ loginCall.state /= "validating"
    /\ apiToken /= Undefined
    /\ apiToken' = Undefined
    /\ UNCHANGED << clientVars, loginCall, twin >>

(***************************************************************************)
(* The environment: the tunnel server, the local server, the observers.    *)
(***************************************************************************)
\* The request frames the server can send next when it sends at most `limit`
\* requests in a run: the next one carries the server's next id or one of
\* the ids in `odd` (an empty or a missing request_id).
NextRequests(limit, odd) ==
    IF nreq < limit
    THEN { RequestFrame(id) : id \in {ServerIds[nreq + 1]} \cup odd }
    ELSE {}

\* The sets of observers whose write can fail while `data` is handled: only
\* a request is broadcast.
FailChoices(data) ==
    IF data.type = "request" THEN SUBSET OpenClients ELSE { {} }

\* What wss.close() can do to the observers: it matters only when some are
\* connected.
TerminateChoices == IF OpenClients = {} THEN {FALSE} ELSE BOOLEAN

\* Whether the message handler answers the frame with stop().
StopsSession(data) ==
    /\ data.json \notin {"invalid", "null"}
    /\ data.type \notin {"connected", "request"}
    /\ Truthy(data.error)

\* The frames other than requests the server can send next: it sends at
\* most MaxErrorFrames frames that stop the client.
NextControlFrames ==
    IF tunnelClosedLines < MaxErrorFrames
    THEN ControlFrames
    ELSE { d \in ControlFrames : ~StopsSession(d) }

\* The session with every frame the server can send, both callbacks of a
\* forward, every transport event and SIGINT.  No observer connects, the
\* local server answers 200 or the call fails with ECONNREFUSED.
SessionNext ==
    \/ Connect
    \/ InspectorListening
    \/ WsOpen
    \/ WsClose
    \/ WsError
    \/ KeepAlive
    \/ \E t \in TerminateChoices : Sigint(t)
    \/ \E d \in NextControlFrames \cup NextRequests(SessionReqs, {Undefined}) :
          OnMessage(d, {}, FALSE)
    \/ \E k \in Slots : LocalEnd(k, OkResult, {})
    \/ \E k \in Slots : LocalError(k, "connect ECONNREFUSED", {})

SessionSpec == Init /\ [][SessionNext]_vars

\* The inspector's history, with more requests than it holds.  The session
\* connects and stays connected, every request is answered by the local
\* server, one observer connects and stays, and the inspector's HTTP server
\* is asked for its page and for replays.
HistoryNext ==
    \/ Connect
    \/ InspectorListening
    \/ WsOpen
    \/ \E d \in NextRequests(HistoryReqs, {Undefined}) : OnMessage(d, {}, FALSE)
    \/ \E k \in Slots, r \in LocalResults : LocalEnd(k, r, {})
    \/ ObserverConnect("o1")
    \/ \E u \in HttpUrls : HttpRequest(u)

HistorySpec == Init /\ [][HistoryNext]_vars

\* The inspector's observers.  The session connects and stays connected;
\* observers connect and close at any moment and any write to them fails or
\* succeeds; every request carries its id and the local server answers it.
ObserverNext ==
    \/ Connect
    \/ InspectorListening
    \/ WsOpen
    \/ \E d \in NextRequests(ObserverReqs, {}) :
          \E f \in FailChoices(d) : OnMessage(d, f, FALSE)
    \/ \E k \in Slots, r \in LocalResults, f \in SUBSET OpenClients :
          LocalEnd(k, r, f)
    \/ \E o \in Observers : ObserverConnect(o)
    \/ \E o \in Observers : ObserverClose(o)

ObserverSpec == Init /\ [][ObserverNext]_vars

\* The client as a class that a program embeds: connect() is called again
\* after the session has been closed.  The server sends every control frame
\* and ReuseReqs requests, the local server answers.
ReuseNext ==
    \/ Connect
    \/ ConnectAgain
    \/ InspectorListening
    \/ WsOpen
    \/ WsClose
    \/ WsError
    \/ KeepAlive
    \/ \E d \in NextControlFrames \cup NextRequests(ReuseReqs, {}) :
          OnMessage(d, {}, FALSE)
    \/ \E k \in Slots : LocalEnd(k, OkResult, {})

ReuseSpec == Init /\ [][ReuseNext]_vars

\* The same with the timers of the runtime firing.
ReuseFairSpec == ReuseSpec /\ WF_vars(KeepAlive)

\* The state after construction for every configuration of server URL,
\* token and subdomain.
EndpointInit == InitWith(ServerUrls, Tokens, Subdomains)

\* The client for every configuration of the endpoint: the socket is
\* created or the constructor throws, the connection is established or
\* fails, the server sends EndpointReqs requests with any of the header
\* maps and the local server answers.
EndpointNext ==
    \/ Connect
    \/ InspectorListening
    \/ WsOpen
    \/ WsError
    \/ KeepAlive
    \/ \E d \in NextRequests(EndpointReqs, {}), h \in HeaderMaps :
          OnMessage(RequestWith(d.request_id, h), {}, FALSE)
    \/ \E k \in Slots : LocalEnd(k, OkResult, {})

EndpointSpec == EndpointInit /\ [][EndpointNext]_vars

\* The same with the timers of the runtime firing.
EndpointFairSpec == EndpointSpec /\ WF_vars(KeepAlive)

\* The exchanges of a session with an inspector, followed through History:
\* the session connects and stays connected, the server sends more requests
\* than History holds, each with its id, the local server answers or the
\* call fails (and both callbacks of a forward can fire), an observer
\* connects and closes, and a replay is asked for.
ExchangeNext ==
    \/ Connect
    \/ InspectorListening
    \/ WsOpen
    \/ \E d \in NextRequests(ExchangeReqs, {}) : OnMessage(d, {}, FALSE)
    \/ \E k \in Slots : LocalEnd(k, OkResult, {})
    \/ \E k \in Slots : LocalError(k, "connect ECONNREFUSED", {})
    \/ ObserverConnect("o1")
    \/ ObserverClose("o1")
    \/ HttpRequest(replayUrl(<<"r1">>))

ExchangeSpec == Init /\ [][ExchangeNext]_vars

\* The configuration before a login: no token, an empty one, or a token.
LoginInit == InitWith({DefaultServerUrl}, Tokens, {Undefined})

\* The login and logout commands, run one after the other; the validation
\* server accepts or rejects the token, or cannot be reached.
LoginNext ==
    \/ \E t \in LoginTokens : LoginCommand(t)
    \/ \E v \in {"ok", "rejected", "network"} : LoginReturns(v)
    \/ LogoutCommand

LoginSpec == LoginInit /\ [][LoginNext]_vars

\* An event of the tunnel server or of the local server: the transport
\* opens, a Request arrives (with its id or without one), the local call of
\* slot k ends or fails, an Error message arrives.
Event(ev, k, withId) == [ev |-> ev, k |-> k, withId |-> withId]

ScriptEvents ==
    { Event("request", 0, b) : b \in BOOLEAN }
        \cup { Event(ev, k, FALSE) : ev \in {"end", "error"}, k \in 1..TwinReqs }
        \cup { Event("stop", 0, FALSE) }

\* A sequence of events that can happen: the server sends TwinReqs
\* Requests at most, and the local call of slot k ends or fails after the
\* k-th Request has arrived, and once at most.
CanHappen(t) ==
    /\ Cardinality({ j \in 1..Len(t) : t[j].ev = "request" }) <= TwinReqs
    /\ \A i \in 1..Len(t) :
          t[i].ev \in {"end", "error"} =>
              /\ Cardinality({ j \in 1..(i - 1) : t[j].ev = "request" }) >= t[i].k
              /\ \A j \in 1..(i - 1) : t[j] /= t[i]

\* What the servers do in a run: the transport opens, then up to MaxScript
\* events follow.
Scripts ==
    { << Event("open", 0, FALSE) >> \o t :
        t \in { u \in UNION { [1..n -> ScriptEvents] : n \in 0..MaxScript } :
                  CanHappen(u) } }

\* The events of the script the client has handled: every one of them
\* changes one of these fields.
progress ==
    (IF wsState \in {"OPEN", "CLOSING", "CLOSED"} THEN 1 ELSE 0)
        + nreq
        + Cardinality({ c \in Slots \X {"end", "error"} : c[2] \in callbacks[c[1]] })
        + tunnelClosedLines

\* The event of the script that comes next.
NextEvent ==
    IF twin.phase \in {1, 2} /\ progress < Len(twin.script)
    THEN twin.script[progress + 1]
    ELSE Event("none", 0, FALSE)

ScriptOpen == NextEvent.ev = "open" /\ WsOpen

ScriptRequest ==
    /\ NextEvent.ev = "request"
    /\ nreq < TwinReqs
    /\ \E f \in SUBSET OpenClients :
          OnMessage(RequestFrame(IF NextEvent.withId
                                 THEN ServerIds[nreq + 1]
                                 ELSE Undefined), f, FALSE)

ScriptEnd ==
    /\ NextEvent.ev = "end"
    /\ \E f \in SUBSET OpenClients : LocalEnd(NextEvent.k, OkResult, f)

ScriptError ==
    /\ NextEvent.ev = "error"
    /\ \E f \in SUBSET OpenClients :
          LocalError(NextEvent.k, "connect ECONNREFUSED", f)

ScriptStop ==
    /\ NextEvent.ev = "stop"
    /\ \E t \in TerminateChoices :
          OnMessage(Obj("error", "subdomain taken", Undefined, Undefined), {}, t)

\* The run with the inspector is over.  The CLI builds the client again,
\* this time without --inspect (client.ts 45-49: this.inspector stays
\* null), for the servers to produce the same events; what the first run
\* wrote on the control connection is kept for the comparison.
Rebuild ==
    /\ twin.phase = 1
    /\ pc /= "new"
    /\ progress = Len(twin.script)
    /\ twin' = [twin EXCEPT !.phase = 2,
                            !.saved = sent,
                            !.events = Len(broadcasts),
                            !.broken = \E o \in Observers : obsState[o] = "CLOSING"]
    /\ inspect' = FALSE
    /\ pc' = "new"
    /\ wsUrl' = << >>
    /\ localHeaders' = [k \in Slots |-> NoHeaders]
    /\ httpRes' = NoHttpResponse
    /\ tunnelClosedLines' = 0
    /\ running' = FALSE
    /\ ws' = Null
    /\ wsState' = "none"
    /\ publicUrl' = Null
    /\ requestCount' = 0
    /\ nreq' = 0
    /\ reqId' = [k \in Slots |-> Undefined]
    /\ arrivedIn' = [k \in Slots |-> "none"]
    /\ promise' = [k \in Slots |-> NoPromise]
    /\ callbacks' = [k \in Slots |-> {}]
    /\ sent' = << >>
    /\ inspState' = "idle"
    /\ requests' = << >>
    /\ clients' = {}
    /\ obsState' = [o \in Observers |-> "none"]
    /\ obsLog' = [o \in Observers |-> << >>]
    /\ broadcasts' = << >>
    /\ UNCHANGED << apiToken, options, loginCall >>

\* A client with an inspector, for every script.
TwinInit ==
    /\ BuiltWith({DefaultServerUrl}, {Undefined}, {Undefined})
    /\ inspect = TRUE
    /\ twin \in { [phase |-> 1, script |-> t, saved |-> << >>, events |-> 0,
                    broken |-> FALSE] : t \in Scripts }

\* A session with an inspector, with observers that connect and close and
\* writes to them that fail, and then the same session without inspector:
\* both handle the events of the script in its order.
TwinNext ==
    \/ Connect
    \/ InspectorListening
    \/ ScriptOpen
    \/ ScriptRequest
    \/ ScriptEnd
    \/ ScriptError
    \/ ScriptStop
    \/ \E o \in Observers : ObserverConnect(o)
    \/ \E o \in Observers : ObserverClose(o)
    \/ Rebuild

TwinSpec == TwinInit /\ [][TwinNext]_vars

\* The timers of the runtime fire: a keep-alive tick that finds running
\* false is eventually taken.  Nothing obliges the tunnel server, the local
\* server or the operator to act.
SessionFairSpec == SessionSpec /\ WF_vars(KeepAlive)

(***************************************************************************)
(* Properties of the relay session.                                        *)
(***************************************************************************)
\* The session states of the design, read off the client's fields.
Connected == running /\ ws /= Null /\ wsState = "OPEN"

\* stop() has run on a session that had a socket.
Stopped == ws = Null /\ wsState \in {"CLOSING", "CLOSED"}

\* The frames written for the request of slot k.
Answers(k) == { i \in 1..Len(sent) : sent[i].request_id = reqId[k] }

\* The forward of slot k settles in this step.
Settles(k) == promise[k].state = "pending" /\ promise'[k].state = "resolved"

\* The forward of slot k settles in this step through the callback cb.
SettlesBy(k, cb) == Settles(k) /\ cb \notin callbacks[k] /\ cb \in callbacks'[k]

\* C1: every Request received while Connected gets a Response with its
\* requestId written on the control connection, whether the forward
\* succeeds, fails, or the session is asked to stop while it is in flight.
\* Stated for the forwards that have completed: once the forward of a
\* request that arrived while Connected has settled, and the peer has not
\* closed the transport, a Response carrying the request's id has been
\* written.
C1_EveryRequestAnswered ==
    \A k \in Slots :
        ( /\ arrivedIn[k] = "OPEN"
          /\ promise[k].state = "resolved"
          /\ wsState \in {"OPEN", "CLOSING"} )
            => Answers(k) /= {}

\* C2: each Response written answers a distinct Request that was received
\* and not yet answered: for every requestId, no more Responses carry it
\* than Requests were received with it.
C2_NoRequestAnsweredTwice ==
    \A i \in 1..Len(sent) :
        LET id == sent[i].request_id
        IN  Cardinality({ j \in 1..Len(sent) : sent[j].request_id = id })
              <= Cardinality({ k \in 1..nreq : reqId[k] = id })

\* C2 witness: both callbacks of one forward have fired and its Request has
\* its one Response.
C2_Witness ==
    \E k \in Slots :
        /\ callbacks[k] = {"end", "error"}
        /\ reqId[k] /= Undefined
        /\ Cardinality(Answers(k)) = 1

\* C3: a transport-level failure of the local call yields a Response with
\* status 502 and a non-empty body for that requestId, written if the
\* control connection is open, and leaves the session as it was.
C3_LocalFailureIs502 ==
    [][\A k \in Slots :
          SettlesBy(k, "error") =>
              /\ promise'[k].value.request_id = reqId[k]
              /\ promise'[k].value.status = 502
              /\ promise'[k].value.body /= ""
              /\ promise'[k].value.body /= Undefined
              /\ \A m \in ErrorMessages : ErrorValue(k, m).body /= ""
              /\ Connected => sent' = Append(sent, promise'[k].value)
              /\ UNCHANGED << pc, sessionVars, nreq >>]_vars

\* C3 witness: the forward of the first request failed, its 502 was written,
\* the session is still connected and has answered a later request.
C3_Witness ==
    /\ Connected
    /\ Len(sent) = 2
    /\ callbacks[1] = {"error"}
    /\ sent[1].status = 502 /\ sent[1].request_id = reqId[1]
    /\ sent[2].status = 200 /\ sent[2].request_id = reqId[2]

\* The ids of the entries of a history, in order.
HistoryIds(reqs) == [i \in 1..Len(reqs) |-> reqs[i].id]

\* The frames that are Error messages with a message text.
ErrorFrames ==
    { Obj("error", "subdomain taken", Undefined, Undefined),
      Obj(Undefined, "subdomain taken", Undefined, Undefined) }

\* C7: an Error message received while Connected moves the session to
\* Closing and closes the control connection, and no Request that arrives
\* afterwards is dispatched to the Forwarder or mirrored to the inspector.
C7_NoDispatchAfterError ==
    [][/\ \A d \in ErrorFrames :
             (Connected /\ OnMessage(d, {}, FALSE))
                 => (~running' /\ ws' = Null /\ wsState' = "CLOSING")
       /\ Stopped =>
             /\ nreq' = nreq
             /\ \A k \in Slots : promise[k].state = "none" => promise'[k].state = "none"
             /\ HistoryIds(requests') = HistoryIds(requests)]_vars

\* The frames that do not decode as a known kind of control message.
MalformedFrames ==
    { Frame("invalid", Undefined, Undefined, Undefined, Undefined),
      Frame("null", Undefined, Undefined, Undefined, Undefined),
      Frame("scalar", Undefined, Undefined, Undefined, Undefined),
      Obj("ping", Undefined, Undefined, Undefined),
      Obj("ping", "x", Undefined, Undefined) }

\* C8: a frame that does not decode as a known kind of control message is
\* discarded: the session stays Connected, the connection stays open and
\* nothing is forwarded.
C8_MalformedFrameDiscarded ==
    [][\A d \in MalformedFrames :
          (Connected /\ OnMessage(d, {}, FALSE)) => UNCHANGED vars]_vars

\* The Response the forward of slot k produces when it settles through cb.
OwnResponse(k, cb) ==
    IF cb = "end"
    THEN [request_id |-> reqId[k], status |-> OkResult.status, body |-> OkResult.body]
    ELSE [request_id |-> reqId[k], status |-> 502,
          body |-> "Cannot connect to localhost:3000: connect ECONNREFUSED"]

\* C9: requests are handled concurrently.  Whatever other forwards are
\* pending, a forward that completes while the session is connected has
\* its own Response written in that step, with the requestId of its own
\* Request and the status and body of its own forward; no other frame is
\* written and no other forward is touched.
C9_ConcurrentForwards ==
    [][\A k \in Slots, cb \in {"end", "error"} :
          SettlesBy(k, cb) =>
              /\ Connected => sent' = Append(sent, OwnResponse(k, cb))
              /\ \A j \in Slots \ {k} : promise'[j] = promise[j]]_vars

\* C9 witness: the second request was dispatched while the first forward
\* was pending, and its Response was written first.
C9_Witness ==
    /\ Len(sent) = 2
    /\ reqId[1] = "r1" /\ reqId[2] = "r2"
    /\ sent[1].request_id = "r2"
    /\ sent[2].request_id = "r1"
    /\ sent[1].status /= sent[2].status

\* C10: the Forwarder bounds its wait for the local server: a pending
\* forward eventually resolves (unless the process has exited).
C10_ForwardEventuallyResolves ==
    \A k \in Slots :
        (promise[k].state = "pending")
            ~> (promise[k].state = "resolved" \/ pc = "exited")

(***************************************************************************)
(* Properties of the inspector.                                            *)
(***************************************************************************)
Min(a, b) == IF a <= b THEN a ELSE b

\* The id under which the k-th request is mirrored.
MirrorId(k) == OrElse(reqId[k], "")

\* C4: History never holds more than its capacity, and a recordRequest on a
\* full History removes exactly the oldest entry: after n requests History
\* holds the newest min(n, capacity) of them, newest first.
C4_HistoryBounded ==
    /\ Len(requests) <= maxRequests
    /\ inspect =>
          /\ Len(requests) = Min(nreq, maxRequests)
          /\ \A i \in 1..Len(requests) : requests[i].id = MirrorId(nreq - i + 1)

\* C4 witness: more requests than the capacity were recorded, and an outcome
\* was recorded after the eviction.
C4_Witness ==
    /\ inspect
    /\ nreq > maxRequests
    /\ Len(requests) = maxRequests
    /\ requests[1].response /= NoResponse

\* What History becomes when the event ev is applied to it.
ApplyEvent(reqs, ev) ==
    IF ev.type = "request"
    THEN IF Len(reqs) >= maxRequests
         THEN <<ev.request>> \o SubSeq(reqs, 1, maxRequests - 1)
         ELSE <<ev.request>> \o reqs
    ELSE [i \in 1..Len(reqs) |->
            IF reqs[i].id = ev.requestId
               /\ \A j \in 1..(i - 1) : reqs[j].id /= ev.requestId
            THEN [id |-> reqs[i].id, response |-> ev.response]
            ELSE reqs[i]]

RECURSIVE Replay(_, _)
Replay(reqs, evs) ==
    IF evs = << >> THEN reqs ELSE Replay(ApplyEvent(reqs, Head(evs)), Tail(evs))

\* The last n elements of the sequence s.
LastN(s, n) == SubSeq(s, Len(s) - n + 1, Len(s))

\* C5: a connected observer has received an init snapshot first and then
\* every event broadcast since, once each and in broadcast order: what it
\* received after the snapshot is the tail of the broadcasts, and the
\* snapshot with these events applied is the current History.
C5_SnapshotThenEveryEvent ==
    \A o \in OpenClients :
        LET log == obsLog[o]
        IN  /\ Len(log) >= 1
            /\ log[1].type = "init"
            /\ Len(log) - 1 <= Len(broadcasts)
            /\ Tail(log) = LastN(broadcasts, Len(log) - 1)
            /\ Replay(log[1].requests, Tail(log)) = requests

\* C5 witness: an observer connected when History was not empty and has
\* received a request event and a response event since.
C5_Witness ==
    \E o \in OpenClients :
        /\ Len(obsLog[o]) >= 3
        /\ obsLog[o][1].requests /= << >>
        /\ \E i \in 2..Len(obsLog[o]) : obsLog[o][i].type = "request"
        /\ \E i \in 2..Len(obsLog[o]) : obsLog[o][i].type = "response"

\* A broadcast is made in this step.
Broadcasts == Len(broadcasts') = Len(broadcasts) + 1

\* C6: a broadcast reaches every connected observer; when the write to one
\* observer fails the others still receive the event, the failing observer
\* is removed from the fan-out set, and the caller goes on: the Request
\* being mirrored is forwarded.
C6_FailedWriteDropsObserver ==
    [][Broadcasts =>
          /\ \A o \in OpenClients :
                IF obsState'[o] = "OPEN"
                THEN obsLog'[o] = Append(obsLog[o], broadcasts'[Len(broadcasts')])
                ELSE o \notin clients'
          /\ nreq' = nreq + 1 => promise'[nreq'].state = "pending"]_vars

\* The forward of slot k completes in this step and the handler calls
\* logResponse with an id that History does not hold.
RecordsUnknownId(k) ==
    /\ Settles(k)
    /\ inspect
    /\ Truthy(reqId[k])
    /\ find(requests, reqId[k]) = 0

\* C11: logResponse for an id that is not in History (its entry was
\* evicted) is a no-op: History, the observer set and what every observer
\* has received are unchanged, no event is broadcast, and no error is
\* raised: the handler goes on and writes the Response.
C11_UnknownIdIsNoOp ==
    [][\A k \in Slots :
          RecordsUnknownId(k) =>
              /\ UNCHANGED hubVars
              /\ Connected => sent' = Append(sent, promise'[k].value)]_vars

\* C11 witness: with an observer connected, a forward completed after its
\* entry had been evicted: its Response is written and no response event
\* for it was ever broadcast.
C11_Witness ==
    \E k \in Slots :
        /\ inspect
        /\ "o1" \in OpenClients
        /\ promise[k].state = "resolved"
        /\ Truthy(reqId[k])
        /\ find(requests, reqId[k]) = 0
        /\ Answers(k) /= {}
        /\ \A i \in 1..Len(broadcasts) :
              broadcasts[i].type = "response" => broadcasts[i].requestId /= reqId[k]

\* C19: the replay trigger for any exchange id is acknowledged at once
\* with {status: replayed, id} carrying that same id, whether or not the
\* id is in History; handling it leaves History, the observer set and what
\* the observers received unchanged, broadcasts no event and touches no
\* forward.
C19_ReplayAcknowledged ==
    [][\A id \in ReplayIds :
          HttpRequest(replayUrl(id)) =>
              /\ httpRes' = HttpResponse(200, "replayed", Join(id))
              /\ UNCHANGED << hubVars, promise, sent, nreq >>]_vars

\* C19 witness: with an observer connected and an entry for r1 in History
\* whose forward is pending, the trigger for r1 has been acknowledged.
C19_Witness ==
    /\ httpRes = HttpResponse(200, "replayed", "r1")
    /\ "o1" \in OpenClients
    /\ find(requests, "r1") /= 0
    /\ \E k \in 1..nreq : reqId[k] = "r1" /\ promise[k].state = "pending"

(***************************************************************************)
(* Properties of the session's life cycle.                                 *)
(***************************************************************************)
\* stop() is called in this step: by the message handler for a frame that
\* carries an error, or by the SIGINT handler.
StopCalled ==
    \/ \E d \in ControlFrames : StopsSession(d) /\ OnMessage(d, {}, FALSE)
    \/ \E t \in BOOLEAN : Sigint(t)

\* C12: stop() is idempotent: called on a session that is already closed
\* it changes no state and has no further effect: the transport is not
\* closed again, the inspector is not stopped again, nothing is printed.
C12_StopIsIdempotent ==
    [][(Stopped /\ StopCalled) =>
          UNCHANGED << sessionVars, inspState, obsState, tunnelClosedLines >>]_vars

\* The session is closed: stop() has run and the transport is released.
Closed == ws = Null /\ wsState = "CLOSED"

\* C13: Closed is terminal: once the session has been closed no call of
\* connect() brings it back to Connecting or Connected (it stays closed
\* and is not running again) and no Request is handled again.
C13_ClosedIsTerminal ==
    [][Closed => (Closed' /\ ~running' /\ nreq' = nreq)]_vars

\* The peer has closed the transport of a session that was connected and
\* had received its Connected message; stop() has not run.
PeerClosed == wsState = "CLOSED" /\ ws /= Null /\ publicUrl /= Null

\* C14: when the peer closes the transport of a connected session, the
\* session eventually is closed: the transport is released and the owned
\* inspector is stopped, so that it no longer accepts observers (or the
\* process has exited).
C14_PeerCloseLeadsToClosed ==
    PeerClosed ~>
        \/ pc = "exited"
        \/ wsState = "CLOSED" /\ (inspect => inspState /= "listening")

(***************************************************************************)
(* Properties of the handling of one request.                              *)
(***************************************************************************)
\* The positions in the sequence of events evs of the request events for
\* the id.
RequestEventsFor(evs, id) ==
    { i \in 1..Len(evs) : evs[i].type = "request" /\ evs[i].request.id = id }

\* The outcome the inspector is given for the forward of slot k.
Outcome(k) ==
    [status |-> StatusOr502(promise[k].value.status), body |-> promise[k].value.body]

\* The position in History of the entry of the k-th request, newest first;
\* the entry has been evicted when the position is beyond the end.
EntryOf(k) == nreq - k + 1

\* C15: with an inspector attached every Request is handled in the order
\* recordRequest, local forward, recordResponse with the forward's outcome,
\* write of the Response.  So: a forward that has started has its request
\* event broadcast; a response event is broadcast only for a forward that
\* has completed, carries its outcome and comes after the request event of
\* its id, in the broadcast order and in what every observer received (an
\* observer that connected in between has the entry in its snapshot); and
\* when the Response has been written, the entry in History, unless it was
\* evicted, has the outcome.
C15_StepsInOrder ==
    inspect =>
        /\ \A k \in 1..nreq : RequestEventsFor(broadcasts, MirrorId(k)) /= {}
        /\ \A i \in 1..Len(broadcasts) :
              broadcasts[i].type = "response" =>
                  /\ \E j \in RequestEventsFor(broadcasts, broadcasts[i].requestId) :
                        j < i
                  /\ \E k \in 1..nreq :
                        /\ reqId[k] = broadcasts[i].requestId
                        /\ promise[k].state = "resolved"
                        /\ broadcasts[i].response = Outcome(k)
        /\ \A o \in Observers : \A i \in 1..Len(obsLog[o]) :
              obsLog[o][i].type = "response" =>
                  \/ \E j \in RequestEventsFor(obsLog[o], obsLog[o][i].requestId) :
                        j < i
                  \/ find(obsLog[o][1].requests, obsLog[o][i].requestId) /= 0
        /\ \A k \in 1..nreq :
              ( /\ promise[k].state = "resolved"
                /\ Answers(k) /= {}
                /\ EntryOf(k) <= Len(requests) )
                  => requests[EntryOf(k)].response = Outcome(k)

\* The Connected messages the server can send.
ConnectedFrames == { d \in ControlFrames : d.type = "connected" }

\* As soon as the transport is open the handler takes the server's next
\* Request.
ReadyForRequest ==
    (wsState = "OPEN" /\ pc \notin {"threw", "exited"} /\ nreq < SessionReqs)
        => ENABLED << OnMessage(RequestFrame(ServerIds[nreq + 1]), {}, FALSE) >>_vars

\* C16: readiness does not depend on the Connected message.  Whether or
\* not one has been received, a Request that arrives on the open transport
\* is taken and forwarded, and when its forward completes its Response is
\* written; a Connected message changes the recorded public URL and nothing
\* else.
C16_ReadyWithoutConnected ==
    /\ []ReadyForRequest
    /\ [][/\ \A d \in ConnectedFrames :
                OnMessage(d, {}, FALSE) =>
                    /\ publicUrl' = OrElse(d.public_url, "")
                    /\ UNCHANGED << pc, configVars, wsUrl, running, ws, wsState,
                                    requestCount, nreq, reqId, arrivedIn, promise,
                                    callbacks, localHeaders, sent, inspState,
                                    hubVars, httpRes, tunnelClosedLines >>
          /\ \A d \in NextRequests(SessionReqs, {Undefined}) :
                (Connected /\ OnMessage(d, {}, FALSE)) =>
                    /\ nreq' = nreq + 1
                    /\ promise'[nreq'] = Unsettled
                    /\ publicUrl' = publicUrl
          /\ \A k \in Slots, cb \in {"end", "error"} :
                (Connected /\ SettlesBy(k, cb)) =>
                    /\ sent' = Append(sent, OwnResponse(k, cb))
                    /\ publicUrl' = publicUrl]_vars

\* C16 witness: no Connected message has been received, a Request arrived
\* on the open transport and its Response has been written; the request
\* counter shows that Requests were printed.
C16_Witness ==
    /\ Connected
    /\ publicUrl = Null
    /\ \E k \in 1..nreq :
          /\ arrivedIn[k] = "OPEN"
          /\ reqId[k] /= Undefined
          /\ Answers(k) /= {}

\* C17: if the control connection cannot be established, connect()
\* surfaces the failure to its caller and the session is back in
\* Disconnected, not running and without an open transport.  So: when
\* connect() has rejected, the client is not running and has no transport
\* that is connecting or open; and in every run the connection is
\* established, or connect() rejects (or the process exits), or the
\* attempt is still under way.
C17_ConnectFailureSurfaced ==
    /\ [](pc = "threw" => (~running /\ wsState \notin {"CONNECTING", "OPEN"}))
    /\ \/ <>(wsState = "OPEN")
       \/ <>(pc \in {"threw", "exited"})
       \/ [](wsState \in {"none", "CONNECTING"})

(***************************************************************************)
(* Properties of the forwarded headers and of the endpoint.                *)
(***************************************************************************)
\* The header name in lower case.
LowerCase(name) == IF name \in {"host", "Host", "HOST", "hOst"} THEN "host" ELSE name

\* The header map without any Host header, whatever its spelling.
WithoutHost(headers) ==
    [name \in { n \in DOMAIN headers : LowerCase(n) /= "host" } |-> headers[name]]

\* C18: stripping the Host header before the local call is
\* case-insensitive and idempotent: for every header map of a Request, the
\* headers of the local call are the map without the keys that equal
\* "host" in any spelling, every other header kept with its value, and a
\* map without a Host header is forwarded unchanged.
C18_HostStrippedAnyCase ==
    [][\A h \in HeaderMaps :
          OnMessage(RequestWith(ServerIds[nreq + 1], h), {}, FALSE) =>
              /\ localHeaders'[nreq'] = WithoutHost(h)
              /\ WithoutHost(localHeaders'[nreq']) = localHeaders'[nreq']]_vars


\* The position of the first occurrence of a piece in a URL, 0 when the
\* URL does not hold it.
firstIndex(url, piece) ==
    IF includes(url, piece)
    THEN CHOOSE i \in 1..Len(url) :
            url[i] = piece /\ \A j \in 1..(i - 1) : url[j] /= piece
    ELSE 0

\* The query string of a URL as a URL parser reads it: all that follows the
\* first "?".
queryOf(url) ==
    IF includes(url, "?")
    THEN SubSeq(url, firstIndex(url, "?") + 1, Len(url))
    ELSE << >>

\* The "name=value" parts of a query string: the runs between "&" pieces.
RECURSIVE splitOn(_, _)
splitOn(query, sep) ==
    IF ~includes(query, sep)
    THEN << query >>
    ELSE << SubSeq(query, 1, firstIndex(query, sep) - 1) >>
            \o splitOn(SubSeq(query, firstIndex(query, sep) + 1, Len(query)), sep)

\* The value a URL parser reports for a query parameter: the text after the
\* first "=" of the first part with that name; Undefined without such a part.
searchParam(url, name) ==
    LET parts == splitOn(queryOf(url), "&")
        named == { i \in 1..Len(parts) :
                      /\ Len(parts[i]) >= 2
                      /\ parts[i][1] = name
                      /\ parts[i][2] = "=" }
    IN  IF named = {}
        THEN Undefined
        ELSE LET i == CHOOSE i \in named : \A j \in named : i <= j
             IN  Join(SubSeq(parts[i], 3, Len(parts[i])))

\* The number of "?" in a URL.
queryMarks(url) == Len(SelectSeq(url, LAMBDA piece : piece = "?"))

\* The value configured for a parameter: Undefined when it is absent.
configured(value) == IF Truthy(value) THEN value ELSE Undefined

\* C20: for every combination of token present or absent and subdomain
\* present or absent, the URL handed to the WebSocket has one query string
\* at most, exactly one when a token or a subdomain is configured, and a
\* URL parser reads from it the configured token as the parameter token
\* and the configured subdomain as the parameter subdomain, a parameter
\* being absent when its value is not configured.
C20_EndpointParameters ==
    (ws /= Null /\ accepts(wsUrl)) =>
        /\ queryMarks(wsUrl) <= 1
        /\ (Truthy(apiToken) \/ Truthy(options.subdomain))
              => queryMarks(wsUrl) = 1
        /\ searchParam(wsUrl, "token") = configured(apiToken)
        /\ searchParam(wsUrl, "subdomain") = configured(options.subdomain)


(***************************************************************************)
(* Properties of error frames, of History and of the written Responses.    *)
(***************************************************************************)
\* Handling the frame d now would move the session to Closing: stop() runs,
\* the client is not running, has released its socket and the socket is
\* closing.
MovesToClosing(d) ==
    ENABLED ( /\ OnMessage(d, {}, FALSE)
              /\ ~running'
              /\ ws' = Null
              /\ wsState' = "CLOSING" )

\* C21: every message of kind Error received while Connected moves the
\* session to Closing, whatever its message text (a text, the empty text or
\* none), and the kind of the message triggers the transition, not the
\* presence of an error field: a frame of another kind does not move the
\* session to Closing.
C21_ErrorKindCloses ==
    (Connected /\ pc \notin {"threw", "exited"}) =>
        \A d \in ControlFrames : MovesToClosing(d) <=> d.type = "error"


\* The entry that recordRequest makes for the Request taken in this step.
NewEntry == [id |-> OrElse(reqId'[nreq'], ""), response |-> NoResponse]

\* The outcome of the forward of slot k that settles in this step.
SettledOutcome(k) ==
    [status |-> StatusOr502(promise'[k].value.status), body |-> promise'[k].value.body]

\* C22: a History entry is created only by recordRequest, its outcome is
\* set at most once, from absent to the outcome of its own forward, and
\* never changed afterwards, and an entry leaves History only by capacity
\* eviction.  So, in every step: when a Request is recorded, History
\* becomes the new entry followed by the entries it held, less the oldest
\* one if it was full; in any other step History keeps its entries in
\* their places, and an entry whose outcome changes had none and gets the
\* outcome of the forward of its own Request, which settles in that step.
C22_EntryLifeCycle ==
    [][IF nreq' = nreq + 1 /\ inspect
       THEN requests' = << NewEntry >>
                           \o SubSeq(requests, 1, Min(Len(requests), maxRequests - 1))
       ELSE /\ Len(requests') = Len(requests)
            /\ \A i \in 1..Len(requests) :
                  /\ requests'[i].id = requests[i].id
                  /\ requests'[i].response /= requests[i].response =>
                        /\ requests[i].response = NoResponse
                        /\ \E k \in 1..nreq :
                              /\ EntryOf(k) = i
                              /\ Settles(k)
                              /\ requests'[i].response = SettledOutcome(k)]_vars

\* C22 witness: more Requests than the capacity were recorded; the oldest
\* entry left has its outcome, both callbacks of its forward have fired, an
\* observer has connected and closed and a replay was asked for.
C22_Witness ==
    /\ nreq > maxRequests
    /\ Len(requests) = maxRequests
    /\ requests[maxRequests].response /= NoResponse
    /\ callbacks[nreq - maxRequests + 1] = {"end", "error"}
    /\ obsState["o1"] = "CLOSED"
    /\ httpRes.status = "replayed"


\* C23: login(token) stores the token and returns true when the validation
\* server accepts it, and also when the validation call fails at the
\* network level; it returns false and leaves the stored token as it was
\* when the server rejects it.
C23_LoginOutcomes ==
    [][/\ \A v \in {"ok", "network"} :
             LoginReturns(v) =>
                 /\ apiToken' = loginCall.token
                 /\ loginCall'.result = TRUE
       /\ LoginReturns("rejected") =>
             /\ apiToken' = apiToken
             /\ loginCall'.result = FALSE]_vars

\* C23 witness: a token is stored that the server was never able to
\* validate: it rejected it in the first run of login, and the second run
\* could not reach the server, stored it and returned true.
C23_Witness ==
    /\ loginCall.state = "done"
    /\ loginCall.calls = 2
    /\ loginCall.token = "bad"
    /\ loginCall.validation = "network"
    /\ loginCall.result = TRUE
    /\ apiToken = "bad"


\* The next event of the script can be handled.
ScriptGoesOn ==
    ENABLED (ScriptOpen \/ ScriptRequest \/ ScriptEnd \/ ScriptError \/ ScriptStop)

\* C24: attaching an inspector does not change what the session writes on
\* the control connection.  For the same inbound frames and the same
\* results of the local server, in the same order, the session without
\* inspector handles every event the session with inspector handled, and
\* when it has handled them all the sequence of Responses (requestId,
\* status, body) it has written equals the one written with the inspector,
\* whatever observers were connected and whichever writes to them failed.
C24_InspectorTransparent ==
    (twin.phase = 2 /\ pc /= "new") =>
        IF progress < Len(twin.script)
        THEN ScriptGoesOn
        ELSE sent = twin.saved

\* C24 witness: the run without inspector has handled the whole script and
\* written two Responses; in the run with the inspector three events or
\* more were broadcast and a write to an observer failed.
C24_Witness ==
    /\ twin.phase = 2
    /\ progress = Len(twin.script)
    /\ Len(sent) = 2
    /\ twin.events >= 3
    /\ twin.broken


\* The entry of the k-th Request has been evicted from History.
Evicted(k) == inspect /\ k \in 1..nreq /\ EntryOf(k) > Len(requests)

\* C25: when an exchange is evicted from History while its forward is in
\* flight, the completion of the forward still writes its Response on the
\* control connection, with the requestId of its own Request and the status
\* and body of its own forward; only the inspector's update is dropped:
\* History is left as it was, so that no other entry receives the outcome,
\* and no event is broadcast.
C25_EvictedStillAnswered ==
    [][\A k \in Slots :
          (Evicted(k) /\ Settles(k)) =>
              /\ promise'[k].value.request_id = reqId[k]
              /\ Connected =>
                    sent' = Append(sent, [request_id |-> reqId[k],
                                          status |-> SettledOutcome(k).status,
                                          body |-> SettledOutcome(k).body])
              /\ requests' = requests
              /\ broadcasts' = broadcasts]_vars

\* C25 witness: the first Request was evicted while its forward was in
\* flight (no response event was broadcast for it) and its Response has
\* been written with its id; the entries in History have no outcome or
\* that of their own forward.
C25_Witness ==
    /\ Evicted(1)
    /\ reqId[1] = "r1"
    /\ promise[1].state = "resolved"
    /\ \E i \in 1..Len(sent) :
          sent[i] = [request_id |-> "r1", status |-> Outcome(1).status,
                     body |-> Outcome(1).body]
    /\ \A i \in 1..Len(broadcasts) :
          broadcasts[i].type = "response" => broadcasts[i].requestId /= "r1"
    /\ \E i \in 1..Len(requests) : requests[i].response /= NoResponse
    /\ \A k \in 2..nreq :
          EntryOf(k) <= Len(requests) =>
              requests[EntryOf(k)].response \in
                  {NoResponse} \cup (IF promise[k].state = "resolved"
                                     THEN {Outcome(k)} ELSE {})


\* C26: with an inspector attached, every Request that was mirrored into
\* History and whose forward has completed has its outcome recorded in its
\* History entry, unless the entry was evicted, also when the request_id of
\* the Request is missing or empty: once the forward has completed (and the
\* handler has written the Response) the entry is not pending.
C26_CompletedForwardRecorded ==
    inspect =>
        \A k \in 1..nreq :
            (promise[k].state = "resolved" /\ ~Evicted(k))
                => requests[EntryOf(k)].response = Outcome(k)


\* stop() has run and the forward of slot k is in flight.
InFlightAtStop(k) ==
    /\ tunnelClosedLines > 0
    /\ ws = Null
    /\ promise[k].state = "pending"

\* C27: after stop() has been called no frame is written on the control
\* connection for a forward that was in flight: when it completes, its
\* Response is dropped and never sent (the frames that carry its requestId
\* stay as many as they were), and the completion raises no error: the
\* forward is settled and the process goes on as it was.
C27_NoWriteAfterStop ==
    /\ \A k \in Slots, n \in 0..Cardinality(Slots) :
          []((InFlightAtStop(k) /\ Cardinality(Answers(k)) = n)
                => [](Cardinality(Answers(k)) = n))
    /\ [][\A k \in Slots :
             (tunnelClosedLines > 0 /\ Settles(k)) => pc' = pc]_vars

=============================================================================
